---- MODULE Spec2Model ----
(***************************************************************************)
(* Model of DarazScraper (src/daraz.py): one run of scrape_all_pages over  *)
(* a paginated listing, with the Selenium driver and the CSV file as the   *)
(* environment.  Every engine call and the file write may succeed or raise *)
(* one of the exception classes below; the try/except clauses of the code  *)
(* decide what escapes each method.                                        *)
(***************************************************************************)
EXTENDS Integers, Sequences, FiniteSets, TLC

\* ---------------------------------------------------------------- bounds
MaxPages == 2
MaxContainers == 2
MaxRunContainers == 1
MaxExtraCloses == 1

\* ------------------------------------------------------- exception model
\* "none" is normal completion.  WebDriverException stands for every
\* Selenium error that is neither a timeout nor a missing element (stale
\* element, intercepted click, invalid session); OSError for file errors.
Raisable == {"TimeoutException", "NoSuchElementException",
             "WebDriverException", "OSError"}

\* isinstance(exc, cls) for the classes the except clauses name
IsA(exc, cls) ==
    \/ cls = "Exception"
    \/ cls = exc
    \/ cls = "WebDriverException" /\ exc \in {"TimeoutException", "NoSuchElementException"}

Caught(exc, handlers) == exc # "none" /\ \E h \in handlers : IsA(exc, h)

\* what leaves a try statement with these except clauses (all of them only log)
Escaping(exc, handlers) == IF Caught(exc, handlers) THEN "none" ELSE exc

\* the except clauses of each method
StartDriverHandlers == {"Exception"}
ContainerHandlersNone == {}
ContainerHandlers == {"NoSuchElementException"}
ScrapeProductsHandlers == {"TimeoutException", "Exception"}
GoToNextPageHandlers == {"TimeoutException", "Exception"}
WriteToCsvHandlers == {"Exception"}
RunLoopHandlers == {"Exception"}
QuitDriverHandlersTimeoutOnly == {"TimeoutException"}
QuitDriverHandlers == {"Exception"}

\* ------------------------------------------------------------ selectors
Fields == <<"PRODUCT_NAME", "PRODUCT_PRICE", "PRODUCT_SOLD">>

\* ------------------------------------------------------------ page model
\* A located container either carries all three sub-elements, lacks one of
\* them, or has gone stale (any lookup in it raises a WebDriverException).
ContainerKinds == {"full", "noName", "noPrice", "noSold", "stale"}

MissingField(kind) ==
    CASE kind = "noName" -> "PRODUCT_NAME"
      [] kind = "noPrice" -> "PRODUCT_PRICE"
      [] kind = "noSold" -> "PRODUCT_SOLD"
      [] OTHER -> "-"

\* .text of the sub-element f of the i-th container on page view v
Text(v, i, f) == <<v, i, f>>

\* container.find_element(By.XPATH, f).text
FindElement(kind, f) ==
    IF kind = "stale" THEN "WebDriverException"
    ELSE IF MissingField(kind) = f THEN "NoSuchElementException"
    ELSE "none"

\* the three lookups of one loop body, in source order; the first that
\* raises ends the body
ContainerRecord(kind, v, i) ==
    LET e1 == FindElement(kind, Fields[1])
        e2 == FindElement(kind, Fields[2])
        e3 == FindElement(kind, Fields[3])
        exc == IF e1 # "none" THEN e1 ELSE IF e2 # "none" THEN e2 ELSE e3
    IN [exc |-> exc,
        row |-> <<Text(v, i, Fields[1]), Text(v, i, Fields[2]), Text(v, i, Fields[3])>>]

\* for container in product_containers: try ... except NoSuchElementException
RECURSIVE ExtractLoop(_, _, _, _)
ExtractLoop(cs, v, i, data) ==
    IF i > Len(cs) THEN [exc |-> "none", data |-> data]
    ELSE LET r == ContainerRecord(cs[i], v, i)
         IN IF r.exc = "none" THEN ExtractLoop(cs, v, i + 1, Append(data, r.row))
            ELSE IF Caught(r.exc, ContainerHandlers) THEN ExtractLoop(cs, v, i + 1, data)
            ELSE [exc |-> r.exc, data |-> data]

WriteToCsvTruncating(f, data, ok, n) ==
    IF ok THEN data ELSE SubSeq(data, 1, n)

\* open(csv_file, mode='a'); writer.writerows(data): rows are appended; a
\* failing write leaves the n rows written before the error
WriteToCsvFile(f, data, ok, n) ==
    IF ok THEN f \o data ELSE f \o SubSeq(data, 1, n)

\* outcomes of the file write for a batch
WriteOutcomes(data) ==
    {[ok |-> TRUE, n |-> Len(data)]}
      \cup {[ok |-> FALSE, n |-> j] : j \in 0..(IF Len(data) = 0 THEN 0 ELSE Len(data) - 1)}

\* presence_of_all_elements_located yields a non-empty list or the wait times out
ContainerSeqs(m) == UNION {[1..k -> ContainerKinds] : k \in 1..m}

\* what WebDriverWait(driver, 10).until(presence_of_all_elements_located(...))
\* can do on a page of at most m containers
WaitInputs(m) ==
    {[w |-> "found", cs |-> c] : c \in ContainerSeqs(m)}
      \cup {[w |-> x, cs |-> <<>>] : x \in {"TimeoutException", "WebDriverException"}}

\* write_to_csv is the last statement of the try block: it runs only if the
\* wait and the container loop raised nothing
ReachesWriteAlways(exc) == TRUE
ReachesWrite(exc) == exc = "none"

\* neither scrape_products nor go_to_next_page has a return statement
ScrapeProductsResult(data) == [none |-> TRUE, batch |-> <<>>]
GoToNextPageResult(out) == "None"

GetOutcomes == {"none", "WebDriverException"}
QuitOutcomes == {"none", "WebDriverException"}
NextOutcomes == {"clicked", "TimeoutException", "WebDriverException"}

ShouldAdvanceAlways(p, n) == p < n

\* if page < pages - 1
ShouldAdvance(p, n) == p < n - 1

\* ---------------------------------------------------------------- state
VARIABLES
    pc,          \* position in scrape_all_pages
    pages,       \* the pages argument
    page,        \* loop variable
    session,     \* "open" until driver.quit() is called
    view,        \* page view the browser shows (0: nothing loaded)
    calls,       \* history of method invocations
    sinkCalls,   \* batches handed to write_to_csv, in order
    file,        \* rows of the CSV file
    quitCalls,   \* driver.quit() invocations made by the run
    closedOps,   \* engine operations issued on a closed session by the run
    raised,      \* exception that escaped to the caller ("none" if none)
    extraCloses, \* quit_driver calls made by the caller after the run
    lastClose,   \* what driver.quit() did in the latest of those calls
    dom,         \* scripted page of the single-page harness (unused in a run)
    lastPage     \* the latest scrape_products invocation

vars == <<pc, pages, page, session, view, calls, sinkCalls, file, quitCalls,
          closedOps, raised, extraCloses, lastClose, dom, lastPage>>

Event(op, p, out, n) ==
    [op |-> op, page |-> p, view |-> view, out |-> out, n |-> n,
     ret |-> IF op = "go_to_next_page" THEN GoToNextPageResult(out) ELSE "None"]

NoPage == [view |-> 0, wait |-> "-", handed |-> FALSE, ret |-> [none |-> TRUE, batch |-> <<>>]]
NoDom == [w |-> "-", cs |-> <<>>]

\* DarazScraper(url, csv_file) followed by scrape_all_pages(pages)
Init ==
    /\ pc = "start"
    /\ pages \in 1..MaxPages
    /\ page = 0
    /\ session = "open"
    /\ view = 0
    /\ calls = <<>>
    /\ sinkCalls = <<>>
    /\ file = <<>>
    /\ quitCalls = 0
    /\ closedOps = 0
    /\ raised = "none"
    /\ extraCloses = 0
    /\ lastClose = "-"
    /\ dom = NoDom
    /\ lastPage = NoPage

\* for page in range(pages): position of the next iteration, or the loop's end
LoopEntry(p) == IF p < pages THEN "scrape" ELSE "quit"

\* an exception leaving a statement of the loop body: except Exception: break
AfterBody(exc, nextPc) ==
    IF exc = "none" THEN nextPc
    ELSE IF Caught(exc, RunLoopHandlers) THEN "quit"
    ELSE "done"

\* start_driver, called outside any try of scrape_all_pages
StartDriver ==
    /\ pc = "start"
    /\ \E g \in GetOutcomes, q \in QuitOutcomes :
         LET caught == Caught(g, StartDriverHandlers)
             quitExc == IF caught THEN Escaping(q, QuitDriverHandlers) ELSE "none"
             esc == IF g # "none" /\ ~caught THEN g ELSE quitExc
         IN /\ view' = IF g = "none" THEN 1 ELSE view
            /\ session' = IF caught THEN "closed" ELSE session
            /\ quitCalls' = IF caught THEN quitCalls + 1 ELSE quitCalls
            /\ calls' = IF caught
                        THEN calls \o <<Event("start_driver", 0, g, 0),
                                        Event("quit_driver", 0, q, 0)>>
                        ELSE Append(calls, Event("start_driver", 0, g, 0))
            /\ raised' = esc
            /\ pc' = IF esc = "none" THEN LoopEntry(0) ELSE "done"
    /\ UNCHANGED <<pages, page, sinkCalls, file, closedOps, extraCloses, lastClose,
                   dom, lastPage>>

\* scrape_products at loop index page, write_to_csv included.  The engine
\* answers the container wait with the scripted page if one is set, else
\* with any page.
ScrapeProducts ==
    /\ pc = "scrape"
    /\ \E inp \in (IF dom = NoDom THEN WaitInputs(MaxRunContainers) ELSE {dom}) :
         LET w == IF session = "open" THEN inp.w ELSE "WebDriverException"
             cs == IF session = "open" THEN inp.cs ELSE <<>>
             loop == IF w = "found" THEN ExtractLoop(cs, view, 1, <<>>)
                     ELSE [exc |-> w, data |-> <<>>]
             handed == ReachesWrite(loop.exc)
         IN \E wr \in WriteOutcomes(IF handed THEN loop.data ELSE <<>>) :
              LET wexc == IF handed /\ ~wr.ok
                          THEN Escaping("OSError", WriteToCsvHandlers) ELSE "none"
                  inner == IF handed THEN wexc ELSE loop.exc
                  esc == Escaping(inner, ScrapeProductsHandlers)
              IN /\ (~handed => wr.ok)
                 /\ sinkCalls' = IF handed THEN Append(sinkCalls, loop.data) ELSE sinkCalls
                 /\ file' = IF handed THEN WriteToCsvFile(file, loop.data, wr.ok, wr.n)
                            ELSE file
                 /\ calls' = Append(calls, Event("scrape_products", page,
                                                  IF loop.exc = "none" THEN "found"
                                                  ELSE loop.exc, 0))
                               \o (IF handed
                                   THEN <<Event("write_to_csv", page,
                                                IF wr.ok THEN "none" ELSE "OSError", wr.n)>>
                                   ELSE <<>>)
                 /\ closedOps' = IF session = "open" THEN closedOps ELSE closedOps + 1
                 /\ lastPage' = [view |-> view, wait |-> w, handed |-> handed,
                                 ret |-> ScrapeProductsResult(loop.data)]
                 /\ raised' = IF esc # "none" /\ ~Caught(esc, RunLoopHandlers)
                              THEN esc ELSE raised
                 /\ pc' = AfterBody(esc, IF ShouldAdvance(page, pages) THEN "next"
                                         ELSE LoopEntry(page + 1))
                 /\ page' = IF esc = "none" /\ ~ShouldAdvance(page, pages)
                            THEN page + 1 ELSE page
    /\ UNCHANGED <<pages, session, view, quitCalls, extraCloses, lastClose, dom>>

\* go_to_next_page at loop index page
GoToNextPage ==
    /\ pc = "next"
    /\ \E o \in NextOutcomes :
         LET out == IF session = "open" THEN o ELSE "WebDriverException"
             exc == IF out = "clicked" THEN "none" ELSE out
             esc == Escaping(exc, GoToNextPageHandlers)
         IN /\ view' = IF out = "clicked" THEN view + 1 ELSE view
            /\ calls' = Append(calls, Event("go_to_next_page", page, out, 0))
            /\ closedOps' = IF session = "open" THEN closedOps ELSE closedOps + 1
            /\ raised' = IF esc # "none" /\ ~Caught(esc, RunLoopHandlers)
                         THEN esc ELSE raised
            /\ pc' = AfterBody(esc, LoopEntry(page + 1))
            /\ page' = IF esc = "none" THEN page + 1 ELSE page
    /\ UNCHANGED <<pages, session, sinkCalls, file, quitCalls, extraCloses, lastClose,
                   dom, lastPage>>

\* the quit_driver call that ends scrape_all_pages
QuitDriver ==
    /\ pc = "quit"
    /\ \E q \in QuitOutcomes :
         /\ calls' = Append(calls, Event("quit_driver", page, q, 0))
         /\ raised' = Escaping(q, QuitDriverHandlers)
    /\ quitCalls' = quitCalls + 1
    /\ session' = "closed"
    /\ pc' = "done"
    /\ UNCHANGED <<pages, page, view, sinkCalls, file, closedOps, extraCloses, lastClose,
                   dom, lastPage>>

\* quit_driver called again by the caller once the run has returned
CloseAgain ==
    /\ pc = "done"
    /\ raised = "none"
    /\ extraCloses < MaxExtraCloses
    /\ \E q \in QuitOutcomes :
         /\ lastClose' = q
         /\ raised' = Escaping(q, QuitDriverHandlers)
    /\ extraCloses' = extraCloses + 1
    /\ session' = "closed"
    /\ UNCHANGED <<pc, pages, page, view, calls, sinkCalls, file, quitCalls, closedOps,
                   dom, lastPage>>

Next == StartDriver \/ ScrapeProducts \/ GoToNextPage \/ QuitDriver \/ CloseAgain

Spec == Init /\ [][Next]_vars

\* One scrape_products call on a scripted page: the session is open on some
\* page view and the engine answers the container wait with dom.
PageInit ==
    /\ pc = "scrape"
    /\ pages = 1
    /\ page = 0
    /\ session = "open"
    /\ view \in 1..MaxPages
    /\ calls = <<>>
    /\ sinkCalls = <<>>
    /\ file = <<>>
    /\ quitCalls = 0
    /\ closedOps = 0
    /\ raised = "none"
    /\ extraCloses = 0
    /\ lastClose = "-"
    /\ dom \in WaitInputs(MaxContainers)
    /\ lastPage = NoPage

PageNext == ScrapeProducts \/ QuitDriver

PageSpec == PageInit /\ [][PageNext]_vars

\* ------------------------------------------------------------- properties
IsScrape(e) == e.op = "scrape_products"
IsNext(e) == e.op = "go_to_next_page"
IsWrite(e) == e.op = "write_to_csv"
IsLoopCall(e) == IsScrape(e) \/ IsNext(e)
IsFoundScrape(e) == IsScrape(e) /\ e.out = "found"

ScrapeCalls == SelectSeq(calls, IsScrape)
NextCalls == SelectSeq(calls, IsNext)
WriteCalls == SelectSeq(calls, IsWrite)
LoopCalls == SelectSeq(calls, IsLoopCall)
FoundScrapes == SelectSeq(calls, IsFoundScrape)

Range(q) == {q[k] : k \in DOMAIN q}

OpenFailed == calls # <<>> /\ calls[1].op = "start_driver" /\ calls[1].out # "none"
OpenSucceeded == calls # <<>> /\ calls[1].op = "start_driver" /\ calls[1].out = "none"

RECURSIVE Flatten(_)
Flatten(batches) ==
    IF batches = <<>> THEN <<>> ELSE Head(batches) \o Flatten(Tail(batches))

\* the records of the containers that carry all three sub-fields, in order
RECURSIVE Complete(_, _, _)
Complete(cs, v, i) ==
    IF i > Len(cs) THEN <<>>
    ELSE (IF cs[i] = "full"
          THEN <<<<Text(v, i, "PRODUCT_NAME"), Text(v, i, "PRODUCT_PRICE"),
                   Text(v, i, "PRODUCT_SOLD")>>>>
          ELSE <<>>) \o Complete(cs, v, i + 1)

IsPrefix(a, b) == Len(a) <= Len(b) /\ SubSeq(b, 1, Len(a)) = a

\* C1: when the run has returned, driver.quit() has been invoked exactly
\* once, whichever way the run ended (normal end, break, failed open).
C1_SessionClosedExactlyOnce == pc = "done" => quitCalls = 1

\* C2: if opening the URL failed, the run is aborted: scrape_products and
\* go_to_next_page are never invoked and no engine operation is issued on
\* the closed session.
C2_OpenFailureAbortsRun ==
    OpenFailed => /\ LoopCalls = <<>>
                  /\ closedOps = 0

\* C3: a next-page wait that times out at index i ends the run: no
\* scrape_products at an index above i, so the page shown at index i is not
\* extracted a second time.
C3_MissingNextControlEndsRun ==
    \A k \in DOMAIN NextCalls :
        NextCalls[k].out = "TimeoutException"
          => \A j \in DOMAIN ScrapeCalls : ScrapeCalls[j].page <= NextCalls[k].page

\* an outcome of a loop-body call that is none of the tolerated ones
Unexpected(e) ==
    \/ IsScrape(e) /\ e.out = "WebDriverException"
    \/ IsWrite(e) /\ e.out = "OSError"
    \/ IsNext(e) /\ e.out = "WebDriverException"

\* C4: after an unexpected failure while extracting, writing or advancing at
\* index i (the session having been opened), neither scrape_products nor
\* go_to_next_page is invoked at an index above i, and the session is closed
\* when the run has returned.
C4_UnexpectedFailureEndsRun ==
    OpenSucceeded =>
      \A k \in DOMAIN calls :
          Unexpected(calls[k])
            => /\ \A j \in DOMAIN LoopCalls : LoopCalls[j].page <= calls[k].page
               /\ (pc = "done" => quitCalls >= 1)

\* no call of the run met an unexpected failure
NoUnexpectedFailure ==
    /\ OpenSucceeded
    /\ \A k \in DOMAIN calls : ~Unexpected(calls[k])

\* C5 as stated: in a finished run without unexpected failure the sink has
\* received one batch per scrape_products invocation, in order, the batch of
\* an invocation whose container wait timed out being empty.
C5_OneBatchPerExtractedPage ==
    (pc = "done" /\ NoUnexpectedFailure)
      => /\ Len(sinkCalls) = Len(ScrapeCalls)
         /\ \A k \in DOMAIN ScrapeCalls :
               ScrapeCalls[k].out = "TimeoutException"
                 => k <= Len(sinkCalls) /\ sinkCalls[k] = <<>>

\* C5 amended: the sink receives one batch per scrape_products invocation
\* whose container wait succeeded and whose lookups raised nothing but
\* missing elements, in invocation order, each made of rows of the page view
\* that invocation saw; an invocation whose wait timed out (or that failed
\* otherwise) hands nothing to the sink.
C5_OneBatchPerFoundPage ==
    /\ Len(sinkCalls) = Len(FoundScrapes)
    /\ Len(WriteCalls) = Len(FoundScrapes)
    /\ \A k \in DOMAIN sinkCalls :
          /\ WriteCalls[k].page = FoundScrapes[k].page
          /\ \A r \in Range(sinkCalls[k]) : r[1][1] = FoundScrapes[k].view

C5_Witness ==
    /\ pc = "done"
    /\ NoUnexpectedFailure
    /\ Len(ScrapeCalls) = 2
    /\ ScrapeCalls[1].out = "found"
    /\ ScrapeCalls[2].out = "TimeoutException"
    /\ Len(sinkCalls) = 1
    /\ Len(sinkCalls[1]) = 1

NoStale(cs) == \A i \in DOMAIN cs : cs[i] # "stale"

C7_LoopCallPattern ==
    /\ Len(ScrapeCalls) <= pages
    /\ Len(NextCalls) <= pages - 1
    /\ \A k \in DOMAIN LoopCalls :
          IsNext(LoopCalls[k])
            => /\ LoopCalls[k].page < pages - 1
               /\ k > 1
               /\ IsScrape(LoopCalls[k - 1])
               /\ LoopCalls[k - 1].page = LoopCalls[k].page
               /\ (k < Len(LoopCalls)
                     => /\ IsScrape(LoopCalls[k + 1])
                        /\ LoopCalls[k + 1].page = LoopCalls[k].page + 1)

C7_Witness ==
    /\ pc = "done"
    /\ pages = 2
    /\ Len(ScrapeCalls) = 2
    /\ Len(NextCalls) = 1
    /\ NextCalls[1].page = 0
    /\ NextCalls[1].out = "clicked"

\* C8: go_to_next_page returns True when the control was clicked, and False
\* exactly when it could not be found or clicked.
C8_AdvanceReturnsBoolean ==
    \A k \in DOMAIN NextCalls :
        /\ (NextCalls[k].out = "clicked" => NextCalls[k].ret = "True")
        /\ (NextCalls[k].ret = "False" <=> NextCalls[k].out # "clicked")

\* C9: no exception of the driver or of the file ever reaches the caller of
\* scrape_all_pages or of quit_driver, whatever fails and however often
\* quit_driver is called.
C9_NothingPropagates == raised = "none"

C9_Witness ==
    /\ pc = "done"
    /\ raised = "none"
    /\ OpenFailed
    /\ quitCalls = 2
    /\ extraCloses >= 1
    /\ lastClose = "WebDriverException"
    /\ \E k \in DOMAIN calls : calls[k].op = "quit_driver" /\ calls[k].out # "none"

\* C10 as stated: the file is at every point the concatenation, in order, of
\* the batches of all pages extracted so far.
C10_FileIsAllBatches == file = Flatten(sinkCalls)

\* rows the k-th write put into the file
WrittenPart(k) == SubSeq(sinkCalls[k], 1, WriteCalls[k].n)

RECURSIVE WrittenUpTo(_)
WrittenUpTo(k) == IF k = 0 THEN <<>> ELSE WrittenUpTo(k - 1) \o WrittenPart(k)

WritesInOrder ==
    /\ Len(WriteCalls) = Len(sinkCalls)
    /\ file = WrittenUpTo(Len(sinkCalls))
    /\ \A k \in DOMAIN WriteCalls :
          WriteCalls[k].out = "none" => WriteCalls[k].n = Len(sinkCalls[k])
    /\ \A k \in DOMAIN calls :
          IsWrite(calls[k])
            => /\ k > 1
               /\ IsScrape(calls[k - 1])
               /\ calls[k - 1].page = calls[k].page
               /\ \A j \in DOMAIN calls :
                     (IsLoopCall(calls[j]) /\ j > k) => calls[j].page >= calls[k].page
                                                        /\ (IsScrape(calls[j]) =>
                                                              calls[j].page > calls[k].page)

\* C10 amended: the batch of index i is written before go_to_next_page at i
\* and before any extraction at i + 1; the file is at every point the
\* concatenation, in hand-off order, of what each write appended: the whole
\* batch when the write succeeded, the rows written before the error
\* (possibly none) when it failed; and the file only ever grows at its end.
C10_FileIsWrittenParts == []WritesInOrder /\ [][IsPrefix(file, file')]_vars

C10_Witness ==
    /\ pc = "done"
    /\ Len(sinkCalls) = 2
    /\ Len(file) = 2
    /\ file[1] = sinkCalls[1][1]
    /\ file[2] = sinkCalls[2][1]
    /\ file[1][1] = Text(1, 1, "PRODUCT_NAME")
    /\ file[2][1] = Text(2, 1, "PRODUCT_NAME")

====
